---- MODULE Spec2Model ----
(***************************************************************************)
(* Model of src/src/main.rs: LinkedList<T>, a doubly linked list whose     *)
(* nodes live in a Vec of slots (Used(node) | Free(next free index)) and   *)
(* refer to each other by slot index.                                      *)
(*                                                                         *)
(* Option<usize> and Option<T> are modelled by the integers, with None as  *)
(* -1.  Slot indices are the source's 0-based indices; the Vec is a TLA+   *)
(* sequence, so index i of the Vec is element i + 1 of the sequence.       *)
(* A method is an operator from the receiver to a record                   *)
(*   [list |-> receiver afterwards, ret |-> result, panic |-> message]     *)
(* where panic is NoPanic unless the code panics on the way; the record    *)
(* then holds the receiver as it was at the point of the panic.            *)
(***************************************************************************)
EXTENDS Integers, Sequences, FiniteSets, TLC

\* Bounds of the model: the largest number of elements the callers hold in
\* the list at once, and the number of distinct element values.
MaxSize == 3
NumValues == 2

\* Bounds of the traversals: the number of iterators alive at once, and the
\* number of calls of next() counted after an iterator's first None.
NumCursors == 2
MaxNones == 2

Values == 1..NumValues

None == -1
Unit == 0
NoPanic == "none"

VARIABLES
    list,   \* the LinkedList: [size, head, tail, free, slots]
    fault,  \* NoPanic, or the message of the panic that ended the program
    last,   \* the most recent call: [op, arg, ret]
    pre,    \* the list as it was before the most recent call
    abs,    \* the abstract sequence driven by the same calls
    rt,     \* the calls since the list was last filled from empty
    hwm,    \* the largest value size() has had so far
    freed,  \* the slots released and not taken again, the latest last
    cursors \* the LinkedListIterators that borrow the list

vars == <<list, fault, last, pre, abs, rt, hwm, freed, cursors>>

----------------------------------------------------------------------------
\* enum Slot<T> { Free(Option<usize>), Used(T) }

Free(pos) == [tag |-> "Free", pos |-> pos]

Used(node) == [tag |-> "Used", node |-> node]

\* struct LinkedListNode<T> { prev, next, val }
LinkedListNode(prev, next, val) == [prev |-> prev, next |-> next, val |-> val]

Ok(v) == [panic |-> NoPanic, v |-> v]

Panicked(msg) == [panic |-> msg, v |-> None]

\* Slot::as_free / into_free
as_free(slot) ==
    IF slot.tag = "Free" THEN Ok(slot.pos) ELSE Panicked("expected free slot")

\* Slot::as_used / as_used_mut / into_used
as_used(slot) ==
    IF slot.tag = "Used" THEN Ok(slot.node) ELSE Panicked("expected used slot")

\* Vec indexing, self.slots[pos]: panics when pos is out of bounds
Index(slots, pos) ==
    IF pos \in 0..(Len(slots) - 1) THEN Ok(slots[pos + 1])
    ELSE Panicked("index out of bounds")

\* self.slots[pos].as_used()
UsedAt(slots, pos) ==
    LET ix == Index(slots, pos)
    IN  IF ix.panic # NoPanic THEN ix ELSE as_used(ix.v)

\* self.slots[pos].as_free()
FreeAt(slots, pos) ==
    LET ix == Index(slots, pos)
    IN  IF ix.panic # NoPanic THEN ix ELSE as_free(ix.v)

Result(l, r, p) == [list |-> l, ret |-> r, panic |-> p]

----------------------------------------------------------------------------
\* LinkedList::new
new == [size |-> 0, head |-> None, tail |-> None, free |-> None, slots |-> <<>>]

\* LinkedList::size
size(self) == self.size

\* LinkedList::is_empty
is_empty(self) == self.head = None

\* LinkedList::get_first
get_first(self) ==
    IF self.head = None THEN Result(self, None, NoPanic)
    ELSE LET n == UsedAt(self.slots, self.head)
         IN  IF n.panic # NoPanic THEN Result(self, None, n.panic)
             ELSE Result(self, n.v.val, NoPanic)

\* Variant of get_last that reads through head instead of tail.
get_last_reads_head(self) ==
    IF self.tail = None THEN Result(self, None, NoPanic)
    ELSE LET n == UsedAt(self.slots, self.head)
         IN  IF n.panic # NoPanic THEN Result(self, None, n.panic)
             ELSE Result(self, n.v.val, NoPanic)

\* LinkedList::get_last
get_last(self) ==
    IF self.tail = None THEN Result(self, None, NoPanic)
    ELSE LET n == UsedAt(self.slots, self.tail)
         IN  IF n.panic # NoPanic THEN Result(self, None, n.panic)
             ELSE Result(self, n.v.val, NoPanic)

\* Variant of insert without `self.size += 1`.
insert_uncounted(self, node) ==
    LET slot == Used(node)
        s1 == self
    IN  IF s1.free = None
        THEN Result([s1 EXCEPT !.slots = Append(s1.slots, slot)],
                    (Len(s1.slots) + 1) - 1, NoPanic)
        ELSE LET curr == s1.free
                 f == FreeAt(s1.slots, curr)
             IN  IF f.panic # NoPanic THEN Result(s1, None, f.panic)
                 ELSE Result([s1 EXCEPT !.free = f.v, !.slots[curr + 1] = slot],
                             curr, NoPanic)

\* Variant of insert that reuses the free-list head without popping it
\* (no `self.free = *self.slots[curr].as_free()`).
insert_no_pop(self, node) ==
    LET slot == Used(node)
        s1 == [self EXCEPT !.size = self.size + 1]
    IN  IF s1.free = None
        THEN Result([s1 EXCEPT !.slots = Append(s1.slots, slot)],
                    (Len(s1.slots) + 1) - 1, NoPanic)
        ELSE LET curr == s1.free
                 f == FreeAt(s1.slots, curr)
             IN  IF f.panic # NoPanic THEN Result(s1, None, f.panic)
                 ELSE Result([s1 EXCEPT !.slots[curr + 1] = slot], curr, NoPanic)

\* Variant of insert that always appends a slot and abandons the freed ones
\* (no Some(curr) arm).
insert_always_push(self, node) ==
    LET slot == Used(node)
        s1 == [self EXCEPT !.size = self.size + 1]
    IN  Result([s1 EXCEPT !.free = None, !.slots = Append(s1.slots, slot)],
               (Len(s1.slots) + 1) - 1, NoPanic)

\* LinkedList::insert
insert(self, node) ==
    LET slot == Used(node)
        s1 == [self EXCEPT !.size = self.size + 1]
    IN  IF s1.free = None
        THEN Result([s1 EXCEPT !.slots = Append(s1.slots, slot)],
                    (Len(s1.slots) + 1) - 1, NoPanic)
        ELSE LET curr == s1.free
                 f == FreeAt(s1.slots, curr)
             IN  IF f.panic # NoPanic THEN Result(s1, None, f.panic)
                 ELSE Result([s1 EXCEPT !.free = f.v, !.slots[curr + 1] = slot],
                             curr, NoPanic)

\* Variant of add_first that leaves head alone on a non-empty list
\* (no `self.head = Some(new_head)` in the Some(old_head) arm).
add_first_keeps_head(self, val) ==
    LET node == LinkedListNode(None, self.head, val)
        ins == insert(self, node)
        s1 == ins.list
        new_head == ins.ret
    IN  IF ins.panic # NoPanic THEN Result(s1, Unit, ins.panic)
        ELSE IF s1.head = None
        THEN Result([s1 EXCEPT !.head = new_head, !.tail = new_head], Unit, NoPanic)
        ELSE LET old_head == s1.head
                 n == UsedAt(s1.slots, old_head)
             IN  IF n.panic # NoPanic THEN Result(s1, Unit, n.panic)
                 ELSE Result([s1 EXCEPT !.slots[old_head + 1].node.prev = new_head],
                             Unit, NoPanic)

\* Variant of add_first that does not point the old head back at the new
\* node (no `self.slots[old_head].as_used_mut().prev = Some(new_head)`).
add_first_no_backlink(self, val) ==
    LET node == LinkedListNode(None, self.head, val)
        ins == insert(self, node)
        s1 == ins.list
        new_head == ins.ret
    IN  IF ins.panic # NoPanic THEN Result(s1, Unit, ins.panic)
        ELSE IF s1.head = None
        THEN Result([s1 EXCEPT !.head = new_head, !.tail = new_head], Unit, NoPanic)
        ELSE Result([s1 EXCEPT !.head = new_head], Unit, NoPanic)

\* Variant of add_first that sets tail along with head in both arms.
add_first_moves_tail(self, val) ==
    LET node == LinkedListNode(None, self.head, val)
        ins == insert(self, node)
        s1 == ins.list
        new_head == ins.ret
    IN  IF ins.panic # NoPanic THEN Result(s1, Unit, ins.panic)
        ELSE IF s1.head = None
        THEN Result([s1 EXCEPT !.head = new_head, !.tail = new_head], Unit, NoPanic)
        ELSE LET old_head == s1.head
                 n == UsedAt(s1.slots, old_head)
             IN  IF n.panic # NoPanic THEN Result(s1, Unit, n.panic)
                 ELSE Result([s1 EXCEPT !.slots[old_head + 1].node.prev = new_head,
                                        !.head = new_head, !.tail = new_head],
                             Unit, NoPanic)

\* LinkedList::add_first
add_first(self, val) ==
    LET node == LinkedListNode(None, self.head, val)
        ins == insert(self, node)
        s1 == ins.list
        new_head == ins.ret
    IN  IF ins.panic # NoPanic THEN Result(s1, Unit, ins.panic)
        ELSE IF s1.head = None
        THEN Result([s1 EXCEPT !.head = new_head, !.tail = new_head], Unit, NoPanic)
        ELSE LET old_head == s1.head
                 n == UsedAt(s1.slots, old_head)
             IN  IF n.panic # NoPanic THEN Result(s1, Unit, n.panic)
                 ELSE Result([s1 EXCEPT !.slots[old_head + 1].node.prev = new_head,
                                        !.head = new_head],
                             Unit, NoPanic)

\* Variant of add_last that does not link the old tail to the new node
\* (no `self.slots[old_tail].as_used_mut().next = Some(new_tail)`).
add_last_unlinked(self, val) ==
    LET node == LinkedListNode(self.tail, None, val)
        ins == insert(self, node)
        s1 == ins.list
        new_tail == ins.ret
    IN  IF ins.panic # NoPanic THEN Result(s1, Unit, ins.panic)
        ELSE IF s1.tail = None
        THEN Result([s1 EXCEPT !.head = new_tail, !.tail = new_tail], Unit, NoPanic)
        ELSE Result([s1 EXCEPT !.tail = new_tail], Unit, NoPanic)

\* Variant of add_last that sets only tail when the list was empty
\* (no `self.head = Some(new_tail)` in the None arm).
add_last_tail_only(self, val) ==
    LET node == LinkedListNode(self.tail, None, val)
        ins == insert(self, node)
        s1 == ins.list
        new_tail == ins.ret
    IN  IF ins.panic # NoPanic THEN Result(s1, Unit, ins.panic)
        ELSE IF s1.tail = None
        THEN Result([s1 EXCEPT !.tail = new_tail], Unit, NoPanic)
        ELSE LET old_tail == s1.tail
                 n == UsedAt(s1.slots, old_tail)
             IN  IF n.panic # NoPanic THEN Result(s1, Unit, n.panic)
                 ELSE Result([s1 EXCEPT !.slots[old_tail + 1].node.next = new_tail,
                                        !.tail = new_tail],
                             Unit, NoPanic)

\* LinkedList::add_last
add_last(self, val) ==
    LET node == LinkedListNode(self.tail, None, val)
        ins == insert(self, node)
        s1 == ins.list
        new_tail == ins.ret
    IN  IF ins.panic # NoPanic THEN Result(s1, Unit, ins.panic)
        ELSE IF s1.tail = None
        THEN Result([s1 EXCEPT !.head = new_tail, !.tail = new_tail], Unit, NoPanic)
        ELSE LET old_tail == s1.tail
                 n == UsedAt(s1.slots, old_tail)
             IN  IF n.panic # NoPanic THEN Result(s1, Unit, n.panic)
                 ELSE Result([s1 EXCEPT !.slots[old_tail + 1].node.next = new_tail,
                                        !.tail = new_tail],
                             Unit, NoPanic)

\* Variant of the release that ends the free chain at the released slot
\* (Slot::Free(None) where the code has Slot::Free(self.free)).
Release_unchained(s, pos) ==
    LET slot == s.slots[pos + 1]
        s1 == [s EXCEPT !.slots[pos + 1] = Free(None), !.free = pos]
    IN  IF s1.size = 0
        THEN Result(s1, None, "attempt to subtract with overflow")
        ELSE LET s2 == [s1 EXCEPT !.size = s1.size - 1]
                 n == as_used(slot)
             IN  IF n.panic # NoPanic THEN Result(s2, None, n.panic)
                 ELSE Result(s2, n.v.val, NoPanic)

\* Variant of the release without `self.size -= 1`.
Release_uncounted(s, pos) ==
    LET slot == s.slots[pos + 1]
        s1 == [s EXCEPT !.slots[pos + 1] = Free(s.free), !.free = pos]
        n == as_used(slot)
    IN  IF n.panic # NoPanic THEN Result(s1, None, n.panic)
        ELSE Result(s1, n.v.val, NoPanic)

\* Variant of the release without `self.free = Some(pos)`.
Release_forgets_head(s, pos) ==
    LET slot == s.slots[pos + 1]
        s1 == [s EXCEPT !.slots[pos + 1] = Free(s.free)]
    IN  IF s1.size = 0
        THEN Result(s1, None, "attempt to subtract with overflow")
        ELSE LET s2 == [s1 EXCEPT !.size = s1.size - 1]
                 n == as_used(slot)
             IN  IF n.panic # NoPanic THEN Result(s2, None, n.panic)
                 ELSE Result(s2, n.v.val, NoPanic)

\* The tail of remove_first / remove_last: mem::replace of the slot by
\* Free(self.free), self.free = Some(pos), self.size -= 1, slot.into_used().val.
\* size is a usize: the subtraction panics at 0 (overflow checks on, as under
\* cargo test).
Release(s, pos) ==
    LET slot == s.slots[pos + 1]
        s1 == [s EXCEPT !.slots[pos + 1] = Free(s.free), !.free = pos]
    IN  IF s1.size = 0
        THEN Result(s1, None, "attempt to subtract with overflow")
        ELSE LET s2 == [s1 EXCEPT !.size = s1.size - 1]
                 n == as_used(slot)
             IN  IF n.panic # NoPanic THEN Result(s2, None, n.panic)
                 ELSE Result(s2, n.v.val, NoPanic)

\* Variant of remove_first that works on the tail end (tail and prev where
\* the code has head and next).
remove_first_from_tail(self) ==
    IF self.tail = None THEN Result(self, None, NoPanic)
    ELSE LET pos == self.tail
             n == UsedAt(self.slots, pos)
         IN  IF n.panic # NoPanic THEN Result(self, None, n.panic)
             ELSE LET s1 == [self EXCEPT !.tail = n.v.prev]
                  IN  IF s1.tail = None
                      THEN Release([s1 EXCEPT !.head = None], pos)
                      ELSE LET new_tail == s1.tail
                               m == UsedAt(s1.slots, new_tail)
                           IN  IF m.panic # NoPanic THEN Result(s1, None, m.panic)
                               ELSE Release([s1 EXCEPT !.slots[new_tail + 1].node.next = None],
                                            pos)

\* Variant of remove_first that leaves tail alone when the list becomes
\* empty (no `self.tail = None` in the None arm).
remove_first_keeps_tail(self) ==
    IF self.head = None THEN Result(self, None, NoPanic)
    ELSE LET pos == self.head
             n == UsedAt(self.slots, pos)
         IN  IF n.panic # NoPanic THEN Result(self, None, n.panic)
             ELSE LET s1 == [self EXCEPT !.head = n.v.next]
                  IN  IF s1.head = None
                      THEN Release(s1, pos)
                      ELSE LET new_head == s1.head
                               m == UsedAt(s1.slots, new_head)
                           IN  IF m.panic # NoPanic THEN Result(s1, None, m.panic)
                               ELSE Release([s1 EXCEPT !.slots[new_head + 1].node.prev = None],
                                            pos)

\* Variant of remove_first that leaves the new head's prev alone
\* (no `self.slots[new_head].as_used_mut().prev = None`).
remove_first_stale_prev(self) ==
    IF self.head = None THEN Result(self, None, NoPanic)
    ELSE LET pos == self.head
             n == UsedAt(self.slots, pos)
         IN  IF n.panic # NoPanic THEN Result(self, None, n.panic)
             ELSE LET s1 == [self EXCEPT !.head = n.v.next]
                  IN  IF s1.head = None
                      THEN Release([s1 EXCEPT !.tail = None], pos)
                      ELSE Release(s1, pos)

\* Variant of remove_first that releases the slot of the new head, read from
\* self.head after it was advanced, instead of pos.
remove_first_frees_successor(self) ==
    IF self.head = None THEN Result(self, None, NoPanic)
    ELSE LET pos == self.head
             n == UsedAt(self.slots, pos)
         IN  IF n.panic # NoPanic THEN Result(self, None, n.panic)
             ELSE LET s1 == [self EXCEPT !.head = n.v.next]
                  IN  IF s1.head = None
                      THEN Release([s1 EXCEPT !.tail = None], pos)
                      ELSE LET new_head == s1.head
                               m == UsedAt(s1.slots, new_head)
                           IN  IF m.panic # NoPanic THEN Result(s1, None, m.panic)
                               ELSE Release([s1 EXCEPT !.slots[new_head + 1].node.prev = None],
                                            new_head)

\* LinkedList::remove_first
remove_first(self) ==
    IF self.head = None THEN Result(self, None, NoPanic)
    ELSE LET pos == self.head
             n == UsedAt(self.slots, pos)
         IN  IF n.panic # NoPanic THEN Result(self, None, n.panic)
             ELSE LET s1 == [self EXCEPT !.head = n.v.next]
                  IN  IF s1.head = None
                      THEN Release([s1 EXCEPT !.tail = None], pos)
                      ELSE LET new_head == s1.head
                               m == UsedAt(s1.slots, new_head)
                           IN  IF m.panic # NoPanic THEN Result(s1, None, m.panic)
                               ELSE Release([s1 EXCEPT !.slots[new_head + 1].node.prev = None],
                                            pos)

\* Variant of remove_last that works on the head end.
remove_last_from_head(self) == remove_first(self)

\* Variant of remove_last that unwraps tail instead of mapping over it.
remove_last_unwrap(self) ==
    IF self.tail = None
    THEN Result(self, None, "called Option::unwrap() on a None value")
    ELSE LET pos == self.tail
             n == UsedAt(self.slots, pos)
         IN  IF n.panic # NoPanic THEN Result(self, None, n.panic)
             ELSE LET s1 == [self EXCEPT !.tail = n.v.prev]
                  IN  IF s1.tail = None
                      THEN Release([s1 EXCEPT !.head = None], pos)
                      ELSE LET new_tail == s1.tail
                               m == UsedAt(s1.slots, new_tail)
                           IN  IF m.panic # NoPanic THEN Result(s1, None, m.panic)
                               ELSE Release([s1 EXCEPT !.slots[new_tail + 1].node.next = None],
                                            pos)

\* LinkedList::remove_last
remove_last(self) ==
    IF self.tail = None THEN Result(self, None, NoPanic)
    ELSE LET pos == self.tail
             n == UsedAt(self.slots, pos)
         IN  IF n.panic # NoPanic THEN Result(self, None, n.panic)
             ELSE LET s1 == [self EXCEPT !.tail = n.v.prev]
                  IN  IF s1.tail = None
                      THEN Release([s1 EXCEPT !.head = None], pos)
                      ELSE LET new_tail == s1.tail
                               m == UsedAt(s1.slots, new_tail)
                           IN  IF m.panic # NoPanic THEN Result(s1, None, m.panic)
                               ELSE Release([s1 EXCEPT !.slots[new_tail + 1].node.next = None],
                                            pos)

----------------------------------------------------------------------------
\* LinkedListIterator::new, LinkedList::iter
iter(self) == [curr |-> self.head]

\* Variant of next that moves the cursor along prev instead of next.
next_follows_prev(self, it) ==
    IF it.curr = None THEN [it |-> it, ret |-> None, panic |-> NoPanic]
    ELSE LET n == UsedAt(self.slots, it.curr)
         IN  IF n.panic # NoPanic THEN [it |-> it, ret |-> None, panic |-> n.panic]
             ELSE [it |-> [curr |-> n.v.prev], ret |-> n.v.val, panic |-> NoPanic]

\* LinkedListIterator::next, on the list the iterator borrows
next(self, it) ==
    IF it.curr = None THEN [it |-> it, ret |-> None, panic |-> NoPanic]
    ELSE LET n == UsedAt(self.slots, it.curr)
         IN  IF n.panic # NoPanic THEN [it |-> it, ret |-> None, panic |-> n.panic]
             ELSE [it |-> [curr |-> n.v.next], ret |-> n.v.val, panic |-> NoPanic]

\* A full traversal, list.iter().collect(): next() until it returns None.
\* A traversal that has yielded more items than the store has slots is in a
\* cycle and never ends: it is reported as the panic "diverges".
RECURSIVE Drain(_, _, _)
Drain(self, it, acc) ==
    LET r == next(self, it)
    IN  IF r.panic # NoPanic THEN [vals |-> acc, panic |-> r.panic]
        ELSE IF r.ret = None THEN [vals |-> acc, panic |-> NoPanic]
        ELSE IF Len(acc) >= Len(self.slots) THEN [vals |-> acc, panic |-> "diverges"]
        ELSE Drain(self, r.it, Append(acc, r.ret))

Collect(self) == Drain(self, iter(self), <<>>)

----------------------------------------------------------------------------
\* The abstract sequence the list is compared with.
AbsAddFirst(s, v) == <<v>> \o s

AbsAddLast(s, v) == Append(s, v)

AbsRemoveFirst(s) == IF s = <<>> THEN s ELSE Tail(s)

AbsRemoveLast(s) == IF s = <<>> THEN s ELSE SubSeq(s, 1, Len(s) - 1)

\* The record of the calls made since the list was last filled from empty:
\* the kind of the adds and the values they pushed, then the kind of the
\* removes and the results they returned.  It is kept as long as the calls
\* are adds of one kind followed by at most Len(pushed) + 1 removes of one
\* kind, and is Broken otherwise.
Fresh == [push |-> "none", pushed |-> <<>>, pop |-> "none", popped |-> <<>>]

Broken == [push |-> "broken", pushed |-> <<>>, pop |-> "broken", popped |-> <<>>]

RtPush(r, kind, v, wasEmpty) ==
    IF wasEmpty
    THEN [push |-> kind, pushed |-> <<v>>, pop |-> "none", popped |-> <<>>]
    ELSE IF r.push = kind /\ r.pop = "none"
    THEN [r EXCEPT !.pushed = Append(r.pushed, v)]
    ELSE Broken

RtPop(r, kind, res) ==
    IF r.push # "broken" /\ r.pop \in {"none", kind} /\ Len(r.popped) <= Len(r.pushed)
    THEN [r EXCEPT !.pop = kind, !.popped = Append(r.popped, res)]
    ELSE Broken

Max(a, b) == IF a > b THEN a ELSE b

Indices(self) == 0..(Len(self.slots) - 1)

IsUsed(self, i) == i \in Indices(self) /\ self.slots[i + 1].tag = "Used"

IsFree(self, i) == i \in Indices(self) /\ self.slots[i + 1].tag = "Free"

\* The released slots after a call that took the list from before to after:
\* the slots the call made Used leave the record, the slot it made Free
\* joins it at the end.
FreedAfter(f, before, after) ==
    LET Still(i) == ~IsUsed(after, i)
        kept == SelectSeq(f, Still)
        gone == {i \in Indices(before) : IsUsed(before, i) /\ IsFree(after, i)}
    IN  IF gone = {} THEN kept ELSE Append(kept, CHOOSE i \in gone : TRUE)

\* No iterator: the value of a cursor that is not alive.
NoCursor == [live |-> FALSE, it |-> [curr |-> None], out |-> <<>>, nones |-> 0]

----------------------------------------------------------------------------
\* State after `let mut list = LinkedList::new();`
Init ==
    /\ list = new
    /\ fault = NoPanic
    /\ last = [op |-> "new", arg |-> None, ret |-> Unit]
    /\ pre = new
    /\ abs = <<>>
    /\ rt = Fresh
    /\ hwm = 0
    /\ freed = <<>>
    /\ cursors = [i \in 1..NumCursors |-> NoCursor]

\* One call of a method: r is the method's result on the current list.
Call(op, arg, r, absNew, rtNew) ==
    /\ fault = NoPanic
    /\ pre' = list
    /\ list' = r.list
    /\ fault' = r.panic
    /\ last' = [op |-> op, arg |-> arg, ret |-> r.ret]
    /\ abs' = absNew
    /\ rt' = rtNew
    /\ hwm' = Max(hwm, size(r.list))
    /\ freed' = FreedAfter(freed, list, r.list)
    /\ UNCHANGED cursors

AddFirst ==
    /\ Len(abs) < MaxSize
    /\ \E v \in Values :
          Call("add_first", v, add_first(list, v), AbsAddFirst(abs, v),
               RtPush(rt, "add_first", v, abs = <<>>))

AddLast ==
    /\ Len(abs) < MaxSize
    /\ \E v \in Values :
          Call("add_last", v, add_last(list, v), AbsAddLast(abs, v),
               RtPush(rt, "add_last", v, abs = <<>>))

RemoveFirst ==
    LET r == remove_first(list)
    IN  Call("remove_first", None, r, AbsRemoveFirst(abs),
             RtPop(rt, "remove_first", r.ret))

RemoveLast ==
    LET r == remove_last(list)
    IN  Call("remove_last", None, r, AbsRemoveLast(abs),
             RtPop(rt, "remove_last", r.ret))

GetFirst == Call("get_first", None, get_first(list), abs, rt)

GetLast == Call("get_last", None, get_last(list), abs, rt)

Size == Call("size", None, Result(list, size(list), NoPanic), abs, rt)

IsEmpty == Call("is_empty", None, Result(list, is_empty(list), NoPanic), abs, rt)

Next ==
    \/ AddFirst
    \/ AddLast
    \/ RemoveFirst
    \/ RemoveLast
    \/ GetFirst
    \/ GetLast
    \/ Size
    \/ IsEmpty

Spec == Init /\ [][Next]_vars

----------------------------------------------------------------------------
\* Traversals.  An iterator borrows the list (&'a LinkedList<T>) for as long
\* as it is alive, so the list is mutated only while no iterator is alive.
\* Each cursor keeps, next to the iterator, the values next() has returned
\* (out) and the number of times it has returned None (nones).  The records
\* of the calls (last, pre, rt, hwm, freed) belong to Spec and are left as
\* they are here.

NoneAlive == \A i \in 1..NumCursors : ~cursors[i].live

\* A mutating call between traversals: r is the method's result.
Mutate(r, absNew) ==
    /\ fault = NoPanic
    /\ NoneAlive
    /\ list' = r.list
    /\ fault' = r.panic
    /\ abs' = absNew
    /\ UNCHANGED <<last, pre, rt, hwm, freed, cursors>>

MutAddFirst ==
    /\ Len(abs) < MaxSize
    /\ \E v \in Values : Mutate(add_first(list, v), AbsAddFirst(abs, v))

MutAddLast ==
    /\ Len(abs) < MaxSize
    /\ \E v \in Values : Mutate(add_last(list, v), AbsAddLast(abs, v))

MutRemoveFirst == Mutate(remove_first(list), AbsRemoveFirst(abs))

MutRemoveLast == Mutate(remove_last(list), AbsRemoveLast(abs))

\* let it = list.iter();
IterNew(i) ==
    /\ fault = NoPanic
    /\ ~cursors[i].live
    /\ cursors' = [cursors EXCEPT ![i] =
                      [live |-> TRUE, it |-> iter(list), out |-> <<>>, nones |-> 0]]
    /\ UNCHANGED <<list, fault, last, pre, abs, rt, hwm, freed>>

\* it.next();  calls after the first None are counted up to MaxNones, and a
\* traversal is followed for at most one item more than the store has slots.
IterNext(i) ==
    /\ fault = NoPanic
    /\ cursors[i].live
    /\ cursors[i].nones < MaxNones
    /\ Len(cursors[i].out) <= Len(list.slots)
    /\ LET c == cursors[i]
           r == next(list, c.it)
       IN  /\ fault' = r.panic
           /\ cursors' = [cursors EXCEPT ![i] =
                 [live |-> TRUE,
                  it |-> r.it,
                  out |-> IF r.ret = None THEN c.out ELSE Append(c.out, r.ret),
                  nones |-> IF r.ret = None THEN c.nones + 1 ELSE c.nones]]
    /\ UNCHANGED <<list, last, pre, abs, rt, hwm, freed>>

\* The iterator goes out of scope, consumed or not.
IterDrop(i) ==
    /\ fault = NoPanic
    /\ cursors[i].live
    /\ cursors' = [cursors EXCEPT ![i] = NoCursor]
    /\ UNCHANGED <<list, fault, last, pre, abs, rt, hwm, freed>>

NextIter ==
    \/ MutAddFirst
    \/ MutAddLast
    \/ MutRemoveFirst
    \/ MutRemoveLast
    \/ \E i \in 1..NumCursors : IterNew(i)
    \/ \E i \in 1..NumCursors : IterNext(i)
    \/ \E i \in 1..NumCursors : IterDrop(i)

SpecIter == Init /\ [][NextIter]_vars

----------------------------------------------------------------------------
\* Helpers of the properties.

RECURSIVE Reverse(_)
Reverse(s) == IF s = <<>> THEN <<>> ELSE Append(Reverse(Tail(s)), Head(s))

\* p is what the first Len(p) calls return when the calls return the
\* elements of s in order and None afterwards.
ReturnsOf(p, s) ==
    /\ Len(p) <= Len(s) + 1
    /\ p = SubSeq(s \o <<None>>, 1, Len(p))

UsedCount(self) ==
    Cardinality({i \in 1..Len(self.slots) : self.slots[i].tag = "Used"})

FirstOf(s) == IF s = <<>> THEN None ELSE s[1]

LastOf(s) == IF s = <<>> THEN None ELSE s[Len(s)]

----------------------------------------------------------------------------
\* C1: after any sequence of add_first/add_last/remove_first/remove_last
\* calls from new(), a full forward traversal ends and yields exactly the
\* abstract sequence driven by the same calls.
C1_TraversalIsAbstractSequence ==
    Collect(list) = [vals |-> abs, panic |-> NoPanic]

\* After adds and removes at both ends, an add_first into a reused slot
\* leaves two different elements and a free slot behind.
C1_Witness ==
    /\ last.op = "add_first"
    /\ rt = Broken
    /\ pre.free # None
    /\ list.free # None
    /\ Len(abs) = 2
    /\ abs[1] # abs[2]
    /\ Collect(list).vals = abs

\* C2: values pushed with add_last onto an empty list come back from
\* remove_first in the order pushed, and the call after the last of them
\* returns None.
C2_AddLastRemoveFirstFifo ==
    (rt.push \in {"none", "add_last"} /\ rt.pop = "remove_first")
        => ReturnsOf(rt.popped, rt.pushed)

\* Two different values were pushed with add_last onto a list emptied
\* before (its store has a slot more than was pushed), and remove_first was
\* called three times.
C2_Witness ==
    /\ rt.push = "add_last"
    /\ rt.pop = "remove_first"
    /\ Len(rt.pushed) = 2
    /\ rt.pushed[1] # rt.pushed[2]
    /\ Len(rt.popped) = 3
    /\ Len(list.slots) = 3

\* C3, as claimed: values pushed with add_first onto an empty list come back
\* from remove_last in reversed order, vn, ..., v1.
C3_AsClaimed ==
    (rt.push = "add_first" /\ rt.pop = "remove_last")
        => ReturnsOf(rt.popped, Reverse(rt.pushed))

\* C3, amended: values pushed with add_first onto an empty list come back
\* from remove_last in the order pushed, v1, ..., vn, and the call after the
\* last of them returns None.
C3_AddFirstRemoveLastFifo ==
    (rt.push = "add_first" /\ rt.pop = "remove_last")
        => ReturnsOf(rt.popped, rt.pushed)

\* Two different values were pushed with add_first and remove_last was
\* called three times.
C3_Witness ==
    /\ rt.push = "add_first"
    /\ rt.pop = "remove_last"
    /\ Len(rt.pushed) = 2
    /\ rt.pushed[1] # rt.pushed[2]
    /\ Len(rt.popped) = 3

\* Values pushed and popped at the same end come back in reversed order.
C4_SameEndRoundTrip ==
    (\/ rt.push = "add_first" /\ rt.pop = "remove_first"
     \/ rt.push = "add_last" /\ rt.pop = "remove_last")
        => ReturnsOf(rt.popped, Reverse(rt.pushed))

\* A remove right after an add at the same end returns the value added and
\* restores the traversal of the list before the add.
C4_AddThenRemove ==
    (\/ last.op = "add_first" /\ last'.op = "remove_first"
     \/ last.op = "add_last" /\ last'.op = "remove_last")
        => /\ fault' = NoPanic
           /\ last'.ret = last.arg
           /\ Collect(list') = Collect(pre)

\* C4: pushing and popping at the same end is LIFO: values pushed with
\* add_first (add_last) onto an empty list come back from remove_first
\* (remove_last) in reversed order, and on any list add_first(x) followed at
\* once by remove_first() returns x and restores the traversal's contents
\* (the same for add_last and remove_last).
C4_SameEndLifo == [](C4_SameEndRoundTrip) /\ [][C4_AddThenRemove]_vars

\* Three values, not all the same, were pushed with add_first and popped
\* with remove_first.
C4_Witness ==
    /\ rt.push = "add_first"
    /\ rt.pop = "remove_first"
    /\ Len(rt.pushed) = 3
    /\ rt.pushed[1] # rt.pushed[3]
    /\ Len(rt.popped) = 3

\* C5: size() is the number of elements a full forward traversal yields and
\* the number of Used slots of the store.
C5_SizeIsTraversalAndUsedCount ==
    /\ Collect(list).panic = NoPanic
    /\ size(list) = Len(Collect(list).vals)
    /\ size(list) = UsedCount(list)

\* A remove left two elements in a store of three slots.
C5_Witness ==
    /\ last.op \in {"remove_first", "remove_last"}
    /\ size(list) = 2
    /\ Len(list.slots) = 3

\* C6: is_empty(), size() = 0, head = None, tail = None, get_first() = None
\* and get_last() = None all hold or all fail.
C6_EmptinessAgrees ==
    LET e == is_empty(list)
    IN  /\ e <=> (size(list) = 0)
        /\ e <=> (list.head = None)
        /\ e <=> (list.tail = None)
        /\ e <=> (get_first(list).ret = None)
        /\ e <=> (get_last(list).ret = None)

\* A list of two slots was emptied by remove_last.
C6_Witness ==
    /\ last.op = "remove_last"
    /\ last.ret # None
    /\ is_empty(list)
    /\ Len(list.slots) >= 2

\* C7: on an empty list remove_first() and remove_last() return None and
\* leave every field as it was.
C7_RemoveOnEmptyIsNoOp ==
    (last.op \in {"remove_first", "remove_last"} /\ size(pre) = 0)
        => /\ fault = NoPanic
           /\ last.ret = None
           /\ list = pre

\* remove_last was called on a list emptied by removals.
C7_Witness ==
    /\ last.op = "remove_last"
    /\ size(pre) = 0
    /\ pre.free # None
    /\ last.ret = None

\* C8: get_first() returns the first value of the traversal and get_last()
\* the last (None on an empty list), and neither changes the list.
C8_GetFirstLast ==
    /\ last.op = "get_first"
          => /\ fault = NoPanic
             /\ last.ret = FirstOf(Collect(pre).vals)
             /\ list = pre
    /\ last.op = "get_last"
          => /\ fault = NoPanic
             /\ last.ret = LastOf(Collect(pre).vals)
             /\ list = pre

\* get_last was called on a list whose first and last values differ.
C8_Witness ==
    /\ last.op = "get_last"
    /\ Len(abs) >= 2
    /\ abs[1] # abs[Len(abs)]
    /\ last.ret = abs[Len(abs)]

\* No method called on the current list, and no traversal of it, panics.
NoPanicAhead ==
    /\ get_first(list).panic = NoPanic
    /\ get_last(list).panic = NoPanic
    /\ remove_first(list).panic = NoPanic
    /\ remove_last(list).panic = NoPanic
    /\ \A v \in Values : /\ add_first(list, v).panic = NoPanic
                         /\ add_last(list, v).panic = NoPanic
    /\ Collect(list).panic = NoPanic

\* C9: no call has panicked and none can: every slot access of every method
\* and of a traversal finds a slot of the expected kind within the store,
\* size never underflows, and the list is either Empty (head and tail None)
\* or NonEmpty (head and tail present).
C9_NoInternalFault ==
    /\ fault = NoPanic
    /\ NoPanicAhead
    /\ (list.head = None) <=> (list.tail = None)

\* An add_first took a slot from a free list of two slots.
C9_Witness ==
    /\ last.op = "add_first"
    /\ pre.free # None
    /\ list.free # None
    /\ list.slots[pre.free + 1].tag = "Used"

\* C10: the store never has more slots than the largest size() so far.
C10_StoreWithinHighWaterMark == Len(list.slots) <= hwm

\* The list was emptied and as many elements as it ever held were added
\* again, the last of them into a freed slot.
C10_Witness ==
    /\ last.op \in {"add_first", "add_last"}
    /\ pre.free # None
    /\ Len(rt.pushed) = hwm
    /\ hwm >= 2
    /\ Len(list.slots) = hwm

----------------------------------------------------------------------------
\* Walks over the store, for the properties of its structure.

\* A mark that is neither None nor a slot index.
Bad == None - 1

\* The slot indices met from pos by following next ("next"), prev ("prev")
\* or the index held by a Free slot ("free"), up to None.  The walk ends with
\* Bad when it meets an index outside the store, a slot of the wrong kind or
\* more indices than the store has slots.
RECURSIVE Walk(_, _, _, _)
Walk(self, pos, by, acc) ==
    IF pos = None THEN acc
    ELSE IF Len(acc) >= Len(self.slots) THEN Append(acc, Bad)
    ELSE IF by = "free"
    THEN IF IsFree(self, pos)
         THEN Walk(self, self.slots[pos + 1].pos, by, Append(acc, pos))
         ELSE Append(acc, Bad)
    ELSE IF ~IsUsed(self, pos) THEN Append(acc, Bad)
    ELSE IF by = "next"
    THEN Walk(self, self.slots[pos + 1].node.next, by, Append(acc, pos))
    ELSE Walk(self, self.slots[pos + 1].node.prev, by, Append(acc, pos))

Forward(self) == Walk(self, self.head, "next", <<>>)

Backward(self) == Walk(self, self.tail, "prev", <<>>)

FreeChain(self) == Walk(self, self.free, "free", <<>>)

Range(s) == {s[i] : i \in 1..Len(s)}

Distinct(s) == Cardinality(Range(s)) = Len(s)

\* C12: on a list of exactly one element remove_first() and remove_last()
\* return that element and leave the list Empty: head and tail None, size 0.
C12_RemoveOnlyElement ==
    (last.op \in {"remove_first", "remove_last"} /\ size(pre) = 1)
        => /\ fault = NoPanic
           /\ last.ret = Collect(pre).vals[1]
           /\ list.head = None
           /\ list.tail = None
           /\ size(list) = 0

\* remove_first emptied a list whose only element sat in a store of two or
\* more slots.
C12_Witness ==
    /\ last.op = "remove_first"
    /\ size(pre) = 1
    /\ Len(pre.slots) >= 2
    /\ last.ret \in Values
    /\ is_empty(list)

\* C14: the nodes of a non-empty list form one doubly linked chain: next
\* from head meets size distinct Used slots and ends at tail, prev from tail
\* meets the same slots in reverse order, and every next link is answered by
\* the prev link of the slot it points to.
C14_ConsistentChain ==
    ~is_empty(list) =>
        LET f == Forward(list)
            b == Backward(list)
        IN  /\ Bad \notin Range(f)
            /\ Len(f) = size(list)
            /\ Distinct(f)
            /\ f[1] = list.head
            /\ f[Len(f)] = list.tail
            /\ b = Reverse(f)
            /\ \A a \in Indices(list) :
                  (IsUsed(list, a) /\ list.slots[a + 1].node.next # None)
                     => LET n == list.slots[a + 1].node.next
                        IN  /\ IsUsed(list, n)
                            /\ list.slots[n + 1].node.prev = a

\* Three nodes are chained in an order that is not the order of their
\* slots.
C14_Witness ==
    /\ size(list) = 3
    /\ Forward(list) = <<1, 2, 0>>
    /\ Backward(list) = <<0, 2, 1>>

\* C15: in a non-empty list the head node has no prev, the tail node has no
\* next, every other Used node has both, and every link of a Used node
\* points to a Used slot.
C15_BoundaryAndInteriorLinks ==
    ~is_empty(list) =>
        /\ IsUsed(list, list.head)
        /\ IsUsed(list, list.tail)
        /\ list.slots[list.head + 1].node.prev = None
        /\ list.slots[list.tail + 1].node.next = None
        /\ \A i \in Indices(list) :
              IsUsed(list, i) =>
                 LET n == list.slots[i + 1].node
                 IN  /\ i \notin {list.head, list.tail}
                           => (n.prev # None /\ n.next # None)
                     /\ n.prev # None => IsUsed(list, n.prev)
                     /\ n.next # None => IsUsed(list, n.next)

\* remove_first took the head off a list of three: the new head, which
\* pointed back at the removed slot, has no prev now.
C15_Witness ==
    /\ last.op = "remove_first"
    /\ size(pre) = 3
    /\ pre.slots[list.head + 1].node.prev = pre.head
    /\ list.slots[list.head + 1].node.prev = None
    /\ IsFree(list, pre.head)

\* C16: the free chain from free is acyclic, meets only Free slots and meets
\* exactly the slots that are not Used, each once; free is None iff every
\* slot is Used.
C16_FreeChainIsTheFreeSlots ==
    LET c == FreeChain(list)
    IN  /\ Bad \notin Range(c)
        /\ Distinct(c)
        /\ Range(c) = {i \in Indices(list) : ~IsUsed(list, i)}
        /\ (list.free = None) <=> (\A i \in Indices(list) : IsUsed(list, i))

\* Two slots are free and chained, next to a Used one.
C16_Witness ==
    /\ Len(FreeChain(list)) = 2
    /\ size(list) = 1
    /\ last.op \in {"remove_first", "remove_last"}

\* The slot a call's new node went to (add_first: the new head, add_last:
\* the new tail) and the slot a call's removed node came from.
IsAdd == last.op \in {"add_first", "add_last"}

IsRemove == last.op \in {"remove_first", "remove_last"}

AddedAt == IF last.op = "add_first" THEN list.head ELSE list.tail

RemovedAt == IF last.op = "remove_first" THEN pre.head ELSE pre.tail

ValueAt(self, i) == self.slots[i + 1].node.val

\* C18: a node keeps its slot and its value while it is in the list: over
\* every call, each Used slot other than the one the call removes stays Used
\* with the same value, the slot a remove vacates held the value returned,
\* and an add puts its node in a slot that was not Used.
C18_ResidencyIsStable ==
    /\ \A i \in Indices(pre) :
          IsUsed(pre, i) =>
             IF IsRemove /\ i = RemovedAt
             THEN /\ IsFree(list, i)
                  /\ last.ret = ValueAt(pre, i)
             ELSE /\ IsUsed(list, i)
                  /\ ValueAt(list, i) = ValueAt(pre, i)
    /\ IsAdd => /\ ~IsUsed(pre, AddedAt)
                /\ IsUsed(list, AddedAt)
                /\ ValueAt(list, AddedAt) = last.arg

\* An add reused a freed slot while a node of a different value stayed where
\* it was.
C18_Witness ==
    /\ IsAdd
    /\ IsFree(pre, AddedAt)
    /\ \E i \in Indices(pre) : /\ IsUsed(pre, i)
                               /\ ValueAt(pre, i) # last.arg
                               /\ ValueAt(list, i) = ValueAt(pre, i)

\* C19: a call at one end leaves the rest alone.  add_first on a non-empty
\* list keeps tail and every slot but the new node's and the old head's,
\* where it changes prev only; remove_first on two or more elements keeps
\* tail, the store's length and every slot but the vacated one and the new
\* head's, where it changes prev only.  The same for add_last and
\* remove_last with head, next and tail exchanged.
C19_OtherEndUntouched ==
    /\ (last.op = "add_first" /\ size(pre) >= 1) =>
          /\ list.tail = pre.tail
          /\ \A i \in Indices(pre) :
                IF i = pre.head
                THEN list.slots[i + 1] = [pre.slots[i + 1] EXCEPT !.node.prev = list.head]
                ELSE i # list.head => list.slots[i + 1] = pre.slots[i + 1]
    /\ (last.op = "add_last" /\ size(pre) >= 1) =>
          /\ list.head = pre.head
          /\ \A i \in Indices(pre) :
                IF i = pre.tail
                THEN list.slots[i + 1] = [pre.slots[i + 1] EXCEPT !.node.next = list.tail]
                ELSE i # list.tail => list.slots[i + 1] = pre.slots[i + 1]
    /\ (last.op = "remove_first" /\ size(pre) >= 2) =>
          /\ list.tail = pre.tail
          /\ Len(list.slots) = Len(pre.slots)
          /\ \A i \in Indices(pre) :
                IF i = list.head
                THEN list.slots[i + 1] = [pre.slots[i + 1] EXCEPT !.node.prev = None]
                ELSE i # pre.head => list.slots[i + 1] = pre.slots[i + 1]
    /\ (last.op = "remove_last" /\ size(pre) >= 2) =>
          /\ list.head = pre.head
          /\ Len(list.slots) = Len(pre.slots)
          /\ \A i \in Indices(pre) :
                IF i = list.tail
                THEN list.slots[i + 1] = [pre.slots[i + 1] EXCEPT !.node.next = None]
                ELSE i # pre.tail => list.slots[i + 1] = pre.slots[i + 1]

\* add_first put a third node, in a reused slot, before two others.
C19_Witness ==
    /\ last.op = "add_first"
    /\ size(pre) = 2
    /\ pre.free # None
    /\ list.tail = pre.tail
    /\ list.slots[pre.head + 1].node.prev = list.head

\* C20: the store never shrinks, an add grows it by one slot exactly when
\* every slot was Used (size() = slots.len()) and not otherwise, its length
\* is the largest size() so far, and size() plus the length of the free
\* chain is its length.
C20_StoreLengthIsPeakSize ==
    /\ Len(list.slots) >= Len(pre.slots)
    /\ IsAdd => Len(list.slots) =
                   Len(pre.slots) + (IF size(pre) = Len(pre.slots) THEN 1 ELSE 0)
    /\ ~IsAdd => Len(list.slots) = Len(pre.slots)
    /\ Len(list.slots) = hwm
    /\ size(list) + Len(FreeChain(list)) = Len(list.slots)

\* An add into a store with a free slot left the store at its peak length.
C20_Witness ==
    /\ IsAdd
    /\ size(pre) < Len(pre.slots)
    /\ Len(list.slots) = Len(pre.slots)
    /\ hwm = 3
    /\ size(list) = 2

\* The free list is the stack of the released slots: its head is the slot
\* released last among those not taken again.
C17_FreeListIsStack == FreeChain(list) = Reverse(freed)

\* An add takes the slot released last and makes the index stored in it the
\* new free-list head, or appends a slot when no slot is free.
C17_AddTakesLatestFreed ==
    (last'.op \in {"add_first", "add_last"} /\ vars' # vars) =>
        LET at == IF last'.op = "add_first" THEN list'.head ELSE list'.tail
        IN  /\ fault' = NoPanic
            /\ IF freed # <<>>
               THEN /\ at = freed[Len(freed)]
                    /\ at = list.free
                    /\ list'.free = list.slots[at + 1].pos
                    /\ Len(list'.slots) = Len(list.slots)
               ELSE /\ list.free = None
                    /\ at = Len(list.slots)
                    /\ list'.free = None
                    /\ Len(list'.slots) = Len(list.slots) + 1

\* C17: slot reuse is LIFO: every add_first/add_last puts the new node in
\* the most recently freed slot not yet reused, which is the free-list head,
\* and makes that slot's stored index the new head; it appends a slot at
\* index slots.len() only when no slot is free.
C17_LifoSlotReuse == [](C17_FreeListIsStack) /\ [][C17_AddTakesLatestFreed]_vars

\* The scenario of the free_slot_reuse test: three add_last, two
\* remove_first (slots 0 then 1 freed), add_last into slot 1, add_first into
\* slot 0, and the store still has 3 slots.
C17_Witness ==
    /\ last.op = "add_first"
    /\ pre.head = 2
    /\ pre.tail = 1
    /\ pre.free = 0
    /\ list.head = 0
    /\ list.free = None
    /\ Len(list.slots) = 3
    /\ size(list) = 3

\* What holds of one cursor over the list it borrows: it has returned the
\* first Len(out) values of the list, it stands on the slot that many next
\* links after head (on None after size() of them), it has returned None
\* only after size() values, and from there next() returns None and leaves
\* it where it is.
CursorOk(c) ==
    LET f == Forward(list)
        k == Len(c.out)
    IN  /\ k <= size(list)
        /\ Len(f) = size(list)
        /\ \A j \in 1..k : c.out[j] = ValueAt(list, f[j])
        /\ c.it.curr = IF k < size(list) THEN f[k + 1] ELSE None
        /\ c.nones > 0 => k = size(list)
        /\ k = size(list) => next(list, c.it) = [it |-> c.it, ret |-> None, panic |-> NoPanic]

\* C11: while the list is not mutated, every iterator starts at head, returns
\* the size() values head to tail along the next links, then None on every
\* further call; each iterator is a cursor of its own, whatever the others
\* have done.
C11_IteratorYieldsSizeThenNone ==
    /\ fault = NoPanic
    /\ \A i \in 1..NumCursors : cursors[i].live => CursorOk(cursors[i])

\* Over a list of three, not all the same, one iterator has returned all
\* three values and None twice while another, started later, has returned
\* one value.
C11_Witness ==
    /\ size(list) = 3
    /\ abs[1] # abs[3]
    /\ cursors[1].live
    /\ cursors[1].out = abs
    /\ cursors[1].nones = 2
    /\ cursors[2].live
    /\ cursors[2].out = <<abs[1]>>
    /\ cursors[2].it.curr = list.slots[list.head + 1].node.next

====
